---- MODULE Spec2Model ----
(***************************************************************************)
(* Presence snapshot log and the timeline handlers that aggregate it into  *)
(* 96 fifteen-minute blocks per day:                                       *)
(*   today-overview, presence-data, user-timelines (three variants) and    *)
(*   user activity.                                                        *)
(*                                                                         *)
(* Instants are JavaScript Date values: integer milliseconds.  Instant 0   *)
(* is 2025-02-20T00:00:00.000Z (a Thursday), so that the whole model       *)
(* window fits TLC's 32-bit integers.  An ISO string of an instant is      *)
(* modelled by the instant, and the date key `toISOString().split('T')[0]` *)
(* by the UTC day number (instant \div DayMs).                             *)
(***************************************************************************)
EXTENDS Integers, Sequences, FiniteSets, TLC

\* ---------------------------------------------------------------- bounds
\* Longest snapshot log the collector builds.
MaxRows == 3
\* The most rows overlapping collection runs put into one block.
MaxBurst == 16

\* ------------------------------------------------------- program constants
SecondMs == 1000
MinuteMs == 60 * 1000
HourMs == 60 * 60 * 1000
BlockMs == 15 * 60 * 1000
DayMs == 24 * 60 * 60 * 1000
\* getDay() of instant 0 (2025-02-20 is a Thursday; Sunday is 0)
EpochWeekday == 4

\* ------------------------------------------------------------ input sets
Users == {"u1", "u2"}
UnknownUser == "u9"
Statuses == {"active", "away"}

\* 2025-03-09T00:00:00Z: a UTC midnight
BaseDay == 17 * DayMs
\* 2025-03-09T05:00:00Z: midnight of the same date for a client in UTC-5
ClientMidnight == BaseDay + 5 * HourMs
\* 2025-03-09T07:00:00Z: America/New_York switches from UTC-5 to UTC-4
DstStart == BaseDay + 7 * HourMs

ServerZones == {"UTC", "America/New_York"}

\* Instants at which the collector runs: the day before, exactly on a block
\* boundary of both day grids, and after the next UTC midnight.
TPrevDay == BaseDay - DayMs + 2 * HourMs + 7 * MinuteMs
TBoundary == ClientMidnight + BlockMs
TNextUtcDate == BaseDay + DayMs + HourMs + 7 * MinuteMs
Times == {TPrevDay, TBoundary, TNextUtcDate}

\* What one collected row can be: u1 active or away on the selected day and
\* after it, u1 active the day before, u2 active once.
RowInputs ==
  {<<"u1", s, t>> : s \in Statuses, t \in {TBoundary, TNextUtcDate}}
    \cup {<<"u1", "active", TPrevDay>>, <<"u2", "active", TBoundary>>}

\* Wall-clock readings of Date.now() in a handler.
Nows == {TNextUtcDate + 10 * MinuteMs}

NoParam == -1
Starts == {BaseDay, ClientMidnight}

\* CRON_SECRET.length < 32 is an invalid configuration.
MinSecretLength == 32
\* process.env.CRON_SECRET: not set, too short, valid; and a string that is
\* not the deployment's secret.
NoSecret == <<>>
ShortSecret == <<"s", "3", "c", "r", "3", "t">>
ValidSecret == [i \in 1..MinSecretLength |-> "k"]
WrongSecret == [i \in 1..MinSecretLength |-> "x"]
Secrets == {NoSecret, ShortSecret, ValidSecret}

\* request.headers.get('authorization'): null, or the header's characters.
NoHeader == <<>>
Bearer(secret) == <<"B", "e", "a", "r", "e", "r", " ">> \o secret
Basic(secret) == <<"B", "a", "s", "i", "c", " ">> \o secret

VARIABLES
  store,     \* the presence_logs table: rows in insertion order
  serverTz,  \* the time zone of the server process
  resp,      \* the response of the request being served, or NoResp
  fault,     \* which store read of that request threw (0: none)
  inactive,  \* the users whose metadata holds "inactive":true
  cronSecret,   \* process.env.CRON_SECRET, as its characters (<<>>: not set)
  accessToken,  \* the users whose slackAccessToken is not null
  botToken      \* the users whose metadata holds a botToken
vars == <<store, serverTz, resp, fault, inactive, cronSecret, accessToken, botToken>>

\* The deployment's secret and the users' tokens.
auth == <<cronSecret, accessToken, botToken>>

NoResp == [handler |-> "none"]

\* ------------------------------------------------------------ Date model
\* Local time minus UTC, in ms, at instant t.
Offset(tz, t) ==
  IF tz = "UTC" THEN 0
  ELSE IF t < DstStart THEN 0 - 5 * HourMs ELSE 0 - 4 * HourMs

\* The local wall-clock reading of instant t.
Wall(tz, t) == t + Offset(tz, t)

\* The instant of a local wall-clock reading (a reading skipped by the
\* spring-forward transition is read with the offset before it).
LocalToUtc(tz, wall) ==
  IF tz = "UTC" THEN wall
  ELSE IF wall + 5 * HourMs < DstStart THEN wall + 5 * HourMs
  ELSE IF wall + 4 * HourMs >= DstStart THEN wall + 4 * HourMs
  ELSE wall + 5 * HourMs

\* date.toISOString().split('T')[0]
DateKey(t) == t \div DayMs
\* new Date(dateKey + 'T00:00:00.000Z')
DateKeyStart(k) == k * DayMs

LocalDay(tz, t) == Wall(tz, t) \div DayMs
\* new Date(y, m, d) / date-fns startOfDay: setHours(0, 0, 0, 0)
StartOfDay(tz, t) == LocalToUtc(tz, LocalDay(tz, t) * DayMs)
\* date-fns endOfDay: setHours(23, 59, 59, 999)
EndOfDay(tz, t) == LocalToUtc(tz, LocalDay(tz, t) * DayMs + DayMs - 1)
\* date.setHours(h, m, s, ms)
SetHours(tz, t, h, m, s, ms) ==
  LocalToUtc(tz, LocalDay(tz, t) * DayMs + h * HourMs + m * MinuteMs + s * SecondMs + ms)
\* date.setDate(date.getDate() + n); date-fns subDays(date, k) is n = -k
AddLocalDays(tz, t, n) == LocalToUtc(tz, Wall(tz, t) + n * DayMs)
\* getDay() of a calendar day number
Weekday(day) == (day + EpochWeekday) % 7
\* toLocaleDateString('en-US', {weekday}) / date-fns format(d, 'EEE')
LocalWeekday(tz, t) == Weekday(LocalDay(tz, t))

\* Math.round(num / den) for num >= 0, den > 0
Round(num, den) == (2 * num + den) \div (2 * den)

\* ------------------------------------------------------------- the store
LastTs == IF Len(store) = 0 THEN 0 ELSE store[Len(store)].timestamp

\* prisma.presenceLog.findMany({where: {userId in, timestamp gte/lte}, orderBy asc})
FindLogs(userIds, gte, lte) ==
  SelectSeq(store, LAMBDA r : r.userId \in userIds /\ r.timestamp >= gte /\ r.timestamp <= lte)

OfUser(logs, u) == SelectSeq(logs, LAMBDA r : r.userId = u)
Active(logs) == SelectSeq(logs, LAMBDA r : r.status = "active")
Ids(logs) == {logs[i].id : i \in DOMAIN logs}

Init ==
  /\ store = <<>>
  /\ serverTz \in ServerZones
  /\ resp = NoResp
  /\ fault = 0
  /\ inactive = {}
  /\ cronSecret = ValidSecret
  /\ accessToken = {"u1"}
  /\ botToken = {}

\* Mutation of TryCatch: a failed read is swallowed and answered as a success
\* without data.
TryEmpty(failed, ok) ==
  IF failed
  THEN [handler |-> ok.handler, code |-> 200, success |-> TRUE, data |-> <<>>]
  ELSE ok

\* `try { ... } catch (error) { return NextResponse.json({error}, {status: 500}) }`
\* around a handler body whose response would be ok: failed tells whether one
\* of its store reads threw.
TryCatch(failed, ok) ==
  IF failed
  THEN [handler |-> ok.handler, code |-> 500, error |-> "Failed to fetch"]
  ELSE ok

\* A request whose failAt-th store read throws (0: none does); ok.queries are
\* the reads the handler issues when none throws.
Respond(failAt, ok) ==
  LET failed == failAt >= 1 /\ failAt <= Len(ok.queries)
  IN /\ resp' = TryCatch(failed, ok)
     /\ fault' = IF failed THEN failAt ELSE 0

\* Mutation of Collect: the collector keeps one row per user, replacing the
\* user's latest row by the new snapshot.
CollectLatestOnly ==
  /\ resp = NoResp
  /\ Len(store) < MaxRows
  /\ \E in \in RowInputs :
       /\ in[3] >= LastTs
       /\ LET kept == SelectSeq(store, LAMBDA r : r.userId # in[1])
          IN store' = Append(kept, [id |-> Len(kept) + 1, userId |-> in[1],
                                    status |-> in[2], timestamp |-> in[3]])
  /\ UNCHANGED <<serverTz, resp, fault, inactive, cronSecret, accessToken, botToken>>

\* collect-presence: one row appended, stamped with the collector's clock
Collect ==
  /\ resp = NoResp
  /\ Len(store) < MaxRows
  /\ \E in \in RowInputs :
       /\ in[3] >= LastTs
       /\ store' = Append(store, [id |-> Len(store) + 1, userId |-> in[1],
                                  status |-> in[2], timestamp |-> in[3]])
  /\ UNCHANGED <<serverTz, resp, fault, inactive, cronSecret, accessToken, botToken>>

\* The third status value the PresenceLog model declares ("active", "away",
\* "offline"); the status column is free text.
OfflineStatus == "offline"

\* A row of presence_logs whose status is "offline": the table accepts it,
\* the collector never writes it (it stores "active" or "away" only).
InsertOffline ==
  /\ resp = NoResp
  /\ Len(store) < MaxRows
  /\ \A i \in DOMAIN store : store[i].status # OfflineStatus
  /\ TBoundary >= LastTs
  /\ store' = Append(store, [id |-> Len(store) + 1, userId |-> "u1",
                             status |-> OfflineStatus, timestamp |-> TBoundary])
  /\ UNCHANGED <<serverTz, resp, fault, inactive, cronSecret, accessToken, botToken>>

\* The members Slack's users.list can return for the workspace (deleted,
\* restricted and bot members already filtered out).
SlackMemberLists == {Users, {"u1"}}

\* What users.list can answer: an HTTP error, ok: false, or the members.
SlackLists ==
  {[http |-> FALSE, ok |-> FALSE, members |-> {}],
   [http |-> TRUE, ok |-> FALSE, members |-> {}]}
    \cup {[http |-> TRUE, ok |-> TRUE, members |-> m] : m \in SlackMemberLists}

\* The Authorization headers a caller can send: none, the deployment's
\* secret as a bearer token, another secret, the secret under another scheme.
AuthHeaders ==
  {NoHeader, Bearer(cronSecret), Bearer(WrongSecret), Basic(cronSecret)}

\* Mutation of CronGate: any bearer token is accepted once the
\* configuration is valid.
CronGateAnyBearer(authHeader) ==
  IF Len(cronSecret) = 0 \/ Len(cronSecret) < MinSecretLength THEN 500
  ELSE IF authHeader = NoHeader \/ SubSeq(authHeader, 1, 7) # Bearer(<<>>) THEN 401
  ELSE 200

\* The authentication block of the cron routes: 500 on a missing or short
\* CRON_SECRET, 401 on a header that is not `Bearer <CRON_SECRET>`, 200 to
\* go on.
CronGate(authHeader) ==
  IF Len(cronSecret) = 0 \/ Len(cronSecret) < MinSecretLength THEN 500
  ELSE IF authHeader = NoHeader \/ authHeader # Bearer(cronSecret) THEN 401
  ELSE 200

\* sync-all-users, one run: the response and the users table after it.
\* Every member found has its metadata replaced by a fresh object holding
\* inactive: false (and nothing of what was stored); every other user of
\* the team has inactive: true added to its stored metadata.  No user is
\* deleted, no presence log is read or written.
SyncRun(authHeader, list) ==
  LET gate == CronGate(authHeader)
      activeMembers == list.members
      base == [handler |-> "sync-all-users", presented |-> gate = 200]
  IN IF gate # 200
     THEN [response |-> base @@ [code |-> gate],
           inactive |-> inactive, botToken |-> botToken]
     ELSE IF accessToken = {}
     THEN [response |-> base @@ [code |-> 400],
           inactive |-> inactive, botToken |-> botToken]
     ELSE IF ~list.http
     THEN [response |-> base @@ [code |-> 500],
           inactive |-> inactive, botToken |-> botToken]
     ELSE IF ~list.ok
     THEN [response |-> base @@ [code |-> 400],
           inactive |-> inactive, botToken |-> botToken]
     ELSE [response |-> base @@ [code |-> 200, activeMembers |-> activeMembers,
                                 updated |-> Cardinality(Users \cap activeMembers),
                                 markedInactive |-> Cardinality(Users \ activeMembers)],
           inactive |-> Users \ activeMembers,
           botToken |-> botToken \ activeMembers]

\* GET /api/cron/sync-all-users
SyncAllUsers ==
  /\ resp = NoResp
  /\ \E authHeader \in AuthHeaders, list \in SlackLists :
       LET run == SyncRun(authHeader, list)
       IN /\ resp' = run.response
          /\ inactive' = run.inactive
          /\ botToken' = run.botToken
  /\ UNCHANGED <<store, serverTz, fault, cronSecret, accessToken>>

\* ------------------------------------------------------- collect-presence
\* What users.getPresence can answer for one user: presence active or away,
\* another presence value, ok: false, or an HTTP error.
SlackPresences == {"active", "away", "other", "not-ok", "http-error"}
SlackAnswers == [Users -> SlackPresences]

\* prisma.user.findMany returns the users in table order.
UserOrder == <<"u1", "u2">>

\* The clock readings of a collection run.
RunTimes == {TBoundary, TNextUtcDate}

\* Mutation of ActualStatus: the presence value is stored as Slack sent it.
RawStatus(presence) == presence

\* presence === 'active' ? 'active' : 'away'
ActualStatus(presence) == IF presence = "active" THEN "active" ELSE "away"

\* Mutation of Monitored: the inactive flag is not looked at.
MonitoredAll(seenInactive) == UserOrder

\* findMany({where: metadata null or not containing "inactive":true})
Monitored(seenInactive) == SelectSeq(UserOrder, LAMBDA u : u \notin seenInactive)

\* result.success && result.presenceData
PresenceOk(presence) == presence \in {"active", "away", "other"}

\* The rows of presenceLogData, numbered from the end of the table.
PreparedRows(users, answers, t) ==
  LET ok == SelectSeq(users, LAMBDA u : PresenceOk(answers[u]))
  IN [k \in 1..Len(ok) |->
        [id |-> Len(store) + k, userId |-> ok[k],
         status |-> ActualStatus(answers[ok[k]]), timestamp |-> t]]

\* results.filter(r => r.success).length
SuccessCount(users, answers, inserted) ==
  Len(SelectSeq(users, LAMBDA u : PresenceOk(answers[u])))

\* The store reads and writes of a run that can throw, in order.
CollectSteps == <<"$connect", "user.findFirst", "user.findMany", "presenceLog.createMany">>

\* GET /api/cron/collect-presence, one run: the response and the table
\* after it.  answers: Slack's answer per user; t: the clock; failAt: the
\* step of CollectSteps that throws (0: none); seenInactive, seenBots: the
\* users table as the run reads it.  The response carries, besides the
\* handler's own fields, the request's header and what the run did: the
\* users it monitored, Slack's answers for them, slackCalls, prepared,
\* appended.
CollectRun(authHeader, answers, t, failAt, seenInactive, seenBots) ==
  LET gate == CronGate(authHeader)
      base == [handler |-> "collect-presence", presented |-> gate = 200,
               authorization |-> authHeader,
               slackCalls |-> 0, prepared |-> <<>>, appended |-> 0]
      adminUser == CHOOSE u \in accessToken : TRUE
      users == Monitored(seenInactive)
      presenceLogData == PreparedRows(users, answers, t)
      inserted == IF failAt = 4 THEN <<>> ELSE presenceLogData
      successCount == SuccessCount(users, answers, Len(inserted))
  IN IF gate # 200
     THEN [response |-> base @@ [code |-> gate], store |-> store]
     ELSE IF failAt \in {1, 2}
     THEN [response |-> base @@ [code |-> 500], store |-> store]
     ELSE IF accessToken = {}
     THEN [response |-> base @@ [code |-> 400], store |-> store]
     ELSE IF failAt = 3
     THEN [response |-> base @@ [code |-> 500], store |-> store]
     ELSE [response |->
             [handler |-> "collect-presence", presented |-> TRUE, code |-> 200,
              authorization |-> authHeader,
              tokenType |-> IF adminUser \in seenBots THEN "bot" ELSE "user",
              users |-> users, timestamp |-> t,
              answers |-> [k \in 1..Len(users) |-> answers[users[k]]],
              slackCalls |-> Len(users),
              prepared |-> presenceLogData,
              appended |-> Len(inserted),
              total |-> Len(users),
              successful |-> successCount,
              errors |-> Len(users) - successCount],
           store |-> store \o inserted]

CollectPresence ==
  /\ resp = NoResp
  /\ \E authHeader \in AuthHeaders, answers \in SlackAnswers,
        t \in RunTimes, failAt \in 0..Len(CollectSteps) :
       /\ t >= LastTs
       /\ LET run == CollectRun(authHeader, answers, t, failAt, inactive, botToken)
          IN /\ Len(run.store) <= MaxRows
             /\ resp' = run.response
             /\ store' = run.store
  /\ UNCHANGED <<serverTz, fault, inactive, cronSecret, accessToken, botToken>>

\* GET of the manual trigger route: takes no credentials, and calls
\* collect-presence itself with the deployment's secret.
ManualTrigger ==
  /\ resp = NoResp
  /\ IF Len(cronSecret) = 0
     THEN /\ resp' = [handler |-> "manual-trigger", presented |-> FALSE,
                      code |-> 500, appended |-> 0]
          /\ store' = store
     ELSE \E answers \in SlackAnswers, t \in RunTimes, failAt \in 0..Len(CollectSteps) :
            /\ t >= LastTs
            /\ LET run == CollectRun(Bearer(cronSecret), answers, t, failAt,
                                     inactive, botToken)
               IN /\ Len(run.store) <= MaxRows
                  /\ resp' = [handler |-> "manual-trigger", presented |-> FALSE,
                              code |-> 200, appended |-> run.response.appended,
                              response |-> run.response]
                  /\ store' = run.store
  /\ UNCHANGED <<serverTz, fault, inactive, cronSecret, accessToken, botToken>>

\* GET /api/startup-init: takes no credentials; with a secret set it calls
\* sync-all-users and collect-presence in parallel, so the collection reads
\* the users table before, during or after the sync's updates.
StartupInit ==
  /\ resp = NoResp
  /\ IF Len(cronSecret) = 0
     THEN /\ resp' = [handler |-> "startup-init", presented |-> FALSE,
                      code |-> 200, appended |-> 0]
          /\ UNCHANGED <<store, inactive, botToken>>
     ELSE \E list \in SlackLists, answers \in SlackAnswers, t \in RunTimes :
            LET sync == SyncRun(Bearer(cronSecret), list)
            IN \E seenInactive \in {inactive, inactive \cap sync.inactive, sync.inactive},
                  seenBots \in {botToken, sync.botToken} :
                 /\ t >= LastTs
                 /\ LET run == CollectRun(Bearer(cronSecret), answers, t, 0,
                                          seenInactive, seenBots)
                    IN /\ Len(run.store) <= MaxRows
                       /\ resp' = [handler |-> "startup-init", presented |-> FALSE,
                                   code |-> 200, appended |-> run.response.appended,
                                   results |-> <<sync.response, run.response>>]
                       /\ store' = run.store
                       /\ inactive' = sync.inactive
                       /\ botToken' = sync.botToken
  /\ UNCHANGED <<serverTz, fault, cronSecret, accessToken>>

\* POST /api/debug/data-status: takes no credentials and does not call the
\* cron route; it asks Slack for every monitored user in turn and creates
\* the user's row at once.
DataStatusInit ==
  /\ resp = NoResp
  /\ IF accessToken = {}
     THEN /\ resp' = [handler |-> "data-status-init", presented |-> FALSE,
                      code |-> 400, appended |-> 0]
          /\ store' = store
     ELSE \E answers \in SlackAnswers, t \in RunTimes :
            /\ t >= LastTs
            /\ LET users == Monitored(inactive)
                   created == PreparedRows(users,
                                [u \in Users |-> IF answers[u] = "http-error"
                                                 THEN "not-ok" ELSE answers[u]], t)
               IN /\ Len(store) + Len(created) <= MaxRows
                  /\ resp' = [handler |-> "data-status-init", presented |-> FALSE,
                              code |-> 200, appended |-> Len(created),
                              total |-> Len(users),
                              successful |-> Len(created),
                              errors |-> Len(users) - Len(created)]
                  /\ store' = store \o created
  /\ UNCHANGED <<serverTz, fault, inactive, cronSecret, accessToken, botToken>>

\* Slack sign-in of the workspace's admin: the signIn callback stores the
\* user token in slackAccessToken and writes botToken into the metadata
\* (an undefined bot_token leaves no botToken there).
SignInUsers == {"u1"}
SignIn ==
  /\ resp = NoResp
  /\ \E u \in SignInUsers, hasBotToken \in BOOLEAN :
       /\ accessToken' = accessToken \cup {u}
       /\ botToken' = IF hasBotToken THEN botToken \cup {u} ELSE botToken \ {u}
  /\ UNCHANGED <<store, serverTz, resp, fault, inactive, cronSecret>>

\* Collection runs that overlap within one quarter of an hour: each adds a
\* row of u1, seen active, stamped within the block that holds TBoundary.
CollectOverlapping ==
  /\ resp = NoResp
  /\ Len(store) < MaxBurst
  /\ TBoundary >= LastTs
  /\ store' = Append(store, [id |-> Len(store) + 1, userId |-> "u1",
                             status |-> "active", timestamp |-> TBoundary])
  /\ UNCHANGED <<serverTz, resp, fault, inactive, cronSecret, accessToken, botToken>>

\* prisma.user.findMany({where: metadata null or not inactive})
ActiveUsers == Users \ inactive

\* --------------------------------------------------------- today-overview
\* One block of today-overview; b is the block index hour * 4 + quarter.
\* Mutation of TodayOverviewBlock: the percentage is taken over the
\* snapshots of the block instead of over its 15 minutes.
TodayOverviewBlockOfSamples(presenceLogs, todayStart, b) ==
  LET hour == b \div 4
      quarter == b % 4
      blockStart == todayStart + (hour * 60 + quarter * 15) * 60 * 1000
      blockEnd == blockStart + 15 * 60 * 1000
      blockLogs == SelectSeq(presenceLogs,
                     LAMBDA r : r.timestamp >= blockStart /\ r.timestamp < blockEnd)
      activeMinutes == IF Len(blockLogs) > 0 THEN Len(Active(blockLogs)) ELSE 0
  IN [hour |-> hour, quarter |-> quarter, blockIndex |-> hour * 4 + quarter,
      status |-> IF Len(blockLogs) = 0 THEN "no-data"
                 ELSE IF activeMinutes > 0 THEN "online" ELSE "offline",
      onlinePercentage |-> IF Len(blockLogs) > 0
                           THEN Round(activeMinutes * 100, Len(blockLogs)) ELSE 0,
      activeMinutes |-> activeMinutes, totalMinutes |-> 15,
      blockStart |-> blockStart, blockEnd |-> blockEnd,
      blockLogs |-> Ids(blockLogs)]

TodayOverviewBlock(presenceLogs, todayStart, b) ==
  LET hour == b \div 4
      quarter == b % 4
      blockStart == todayStart + (hour * 60 + quarter * 15) * 60 * 1000
      blockEnd == blockStart + 15 * 60 * 1000
      blockLogs == SelectSeq(presenceLogs,
                     LAMBDA r : r.timestamp >= blockStart /\ r.timestamp < blockEnd)
      totalMinutes == 15
      activeMinutes == IF Len(blockLogs) > 0 THEN Len(Active(blockLogs)) ELSE 0
      onlinePercentage == Round(activeMinutes * 100, totalMinutes)
      status == IF Len(blockLogs) = 0 THEN "no-data"
                ELSE IF activeMinutes > 0 THEN "online"
                ELSE "offline"
  IN [hour |-> hour, quarter |-> quarter, blockIndex |-> hour * 4 + quarter,
      status |-> status, onlinePercentage |-> onlinePercentage,
      activeMinutes |-> activeMinutes, totalMinutes |-> totalMinutes,
      blockStart |-> blockStart, blockEnd |-> blockEnd,
      blockLogs |-> Ids(blockLogs)]

\* Mutation of SumActive: each block with activity adds one, not its
\* activeMinutes, so the total counts active blocks.
SumActiveBlocks(timeline) ==
  Cardinality({b \in DOMAIN timeline : timeline[b].activeMinutes > 0})

\* timeline.reduce((sum, block) => sum + block.activeMinutes, 0), summed by
\* halves to keep the evaluation shallow
SumActive(timeline) ==
  LET RECURSIVE Sum(_, _)
      Sum(lo, hi) ==
        IF lo > hi THEN 0
        ELSE IF lo = hi THEN timeline[lo].activeMinutes
        ELSE Sum(lo, (lo + hi) \div 2) + Sum((lo + hi) \div 2 + 1, hi)
  IN Sum(1, Len(timeline))

\* Mutation of LastTimestamp: the first log of the list is taken.
FirstTimestamp(logs) == IF Len(logs) > 0 THEN logs[1].timestamp ELSE NoParam

LastTimestamp(logs) == IF Len(logs) > 0 THEN logs[Len(logs)].timestamp ELSE NoParam

\* Mutation of TodayOverviewUser: the last active time is sent as the time
\* elapsed since it, measured at the call.
TodayOverviewUserElapsed(u, todayStart, todayEnd, now) ==
  LET presenceLogs == FindLogs({u}, todayStart, todayEnd)
      fifteenMinutesAgo == now - 15 * 60 * 1000
      recentActiveLogs == SelectSeq(presenceLogs,
                            LAMBDA r : r.timestamp >= fifteenMinutesAgo /\ r.status = "active")
      timeline == [i \in 1..96 |-> TodayOverviewBlock(presenceLogs, todayStart, i - 1)]
  IN [id |-> u,
      timeline |-> timeline,
      totalActiveMinutes |-> SumActive(timeline),
      isCurrentlyOnline |-> Len(recentActiveLogs) > 0,
      lastActiveTime |-> IF Len(Active(presenceLogs)) > 0
                         THEN now - LastTimestamp(Active(presenceLogs))
                         ELSE NoParam]

TodayOverviewUser(u, todayStart, todayEnd, now) ==
  LET presenceLogs == FindLogs({u}, todayStart, todayEnd)
      fifteenMinutesAgo == now - 15 * 60 * 1000
      recentActiveLogs == SelectSeq(presenceLogs,
                            LAMBDA r : r.timestamp >= fifteenMinutesAgo /\ r.status = "active")
      timeline == [i \in 1..96 |-> TodayOverviewBlock(presenceLogs, todayStart, i - 1)]
  IN [id |-> u,
      timeline |-> timeline,
      totalActiveMinutes |-> SumActive(timeline),
      isCurrentlyOnline |-> Len(recentActiveLogs) > 0,
      lastActiveTime |-> LastTimestamp(Active(presenceLogs))]

\* GET /api/dashboard/today-overview?start=&end=
TodayOverview(startParam, endParam, now, tz) ==
  LET explicit == startParam # NoParam /\ endParam # NoParam
      todayStart == IF explicit THEN startParam ELSE StartOfDay(tz, now)
      todayEnd == IF explicit THEN endParam ELSE EndOfDay(tz, now)
  IN [handler |-> "today-overview", code |-> 200, now |-> now,
      queries |-> <<"user.findMany">>,
      explicit |-> explicit, start |-> todayStart, end |-> todayEnd,
      data |-> [u \in ActiveUsers |-> TodayOverviewUser(u, todayStart, todayEnd, now)]]

\* The (start, end) pairs the dashboard sends: one day, to its last millisecond.
DayRanges == {<<s, s + DayMs - 1>> : s \in Starts} \cup {<<NoParam, NoParam>>}

GetTodayOverview ==
  /\ resp = NoResp
  /\ \E range \in DayRanges, now \in Nows :
       /\ now >= LastTs
       /\ LET ok == TodayOverview(range[1], range[2], now, serverTz)
          IN \E failAt \in 0..1 : Respond(failAt, ok)
  /\ UNCHANGED <<store, serverTz, inactive, cronSecret, accessToken, botToken>>

\* ---------------------------------------------------------- presence-data
HistoryLimit == 40000
ActiveLimit == 15000

\* findMany's `take`
Take(logs, n) == IF Len(logs) <= n THEN logs ELSE SubSeq(logs, 1, n)

\* orderBy [{userId: 'asc'}, {timestamp: 'asc'}] of rows already in timestamp order
ByUserThenTime(logs) == OfUser(logs, "u1") \o OfUser(logs, "u2")

\* One block of presence-data (today's timeline and each workday's alike).
PresenceDataBlock(logs, dayStart, b) ==
  LET hour == b \div 4
      quarter == b % 4
      blockStart == dayStart + (hour * 60 + quarter * 15) * 60 * 1000
      blockEnd == blockStart + 15 * 60 * 1000
      blockLogs == SelectSeq(logs,
                     LAMBDA r : r.timestamp >= blockStart /\ r.timestamp < blockEnd)
      activeMinutes == Len(Active(blockLogs))
      onlinePercentage == Round(activeMinutes * 100, 15)
      status == IF Len(blockLogs) = 0 THEN "no-data"
                ELSE IF activeMinutes > 0 THEN "online"
                ELSE "offline"
  IN [hour |-> hour, quarter |-> quarter, blockIndex |-> hour * 4 + quarter,
      status |-> status, onlinePercentage |-> onlinePercentage,
      activeMinutes |-> activeMinutes, totalMinutes |-> 15,
      blockStart |-> blockStart, blockEnd |-> blockEnd,
      blockLogs |-> Ids(blockLogs)]

\* presenceByUserAndDay.get(`${user.id}-${dateKey}`) || []
ByUserAndDay(logs, u, dateKey) ==
  SelectSeq(logs, LAMBDA r : r.userId = u /\ DateKey(r.timestamp) = dateKey)

PresenceDataWorkday(allPresenceLogs, u, workday, tz) ==
  LET dateKey == DateKey(workday)
      dayPresenceLogs == ByUserAndDay(allPresenceLogs, u, dateKey)
      dayStart == workday
  IN [date |-> dateKey,
      dayName |-> LocalWeekday(tz, workday),
      dayStart |-> dayStart,
      timeline |-> [i \in 1..96 |-> PresenceDataBlock(dayPresenceLogs, dayStart, i - 1)]]

PresenceDataUser(allPresenceLogs, workdays, u, todayStart, todayEnd, now, tz) ==
  LET userPresenceLogs == OfUser(allPresenceLogs, u)
      todayLogs == SelectSeq(userPresenceLogs,
                     LAMBDA r : r.timestamp >= todayStart /\ r.timestamp <= todayEnd)
      fifteenMinutesAgo == now - 15 * 60 * 1000
      recentLogs == SelectSeq(todayLogs, LAMBDA r : r.timestamp >= fifteenMinutesAgo)
      isCurrentlyOnline ==
        IF Len(recentLogs) > 0 THEN recentLogs[Len(recentLogs)].status = "active" ELSE FALSE
      todayTimeline == [i \in 1..96 |-> PresenceDataBlock(todayLogs, todayStart, i - 1)]
  IN [id |-> u,
      timeline |-> todayTimeline,
      totalActiveMinutes |-> SumActive(todayTimeline),
      isCurrentlyOnline |-> isCurrentlyOnline,
      lastActiveTime |-> LastTimestamp(Active(todayLogs)),
      workdays |-> [i \in 1..7 |->
                      PresenceDataWorkday(allPresenceLogs, u, workdays[i], tz)]]

\* GET /api/dashboard/presence-data?start=&end=
PresenceData(startParam, endParam, now, tz) ==
  LET explicit == startParam # NoParam /\ endParam # NoParam
      todayStart == IF explicit THEN startParam ELSE StartOfDay(tz, now)
      todayEnd == IF explicit THEN endParam ELSE EndOfDay(tz, now)
      users == ActiveUsers
      todayPresenceLogs == ByUserThenTime(FindLogs(users, todayStart, todayEnd))
      workdays == [i \in 1..7 |-> todayStart - (i - 1) * 24 * 60 * 60 * 1000]
      timelineRangeStart == workdays[7]
      timelinePresenceLogs ==
        Take(ByUserThenTime(FindLogs(users, timelineRangeStart, todayStart - 1)),
             HistoryLimit)
      allPresenceLogs == todayPresenceLogs \o timelinePresenceLogs
  IN IF users = {}
     THEN [handler |-> "presence-data", code |-> 200, now |-> now,
           queries |-> <<"user.findMany">>,
           explicit |-> explicit, start |-> todayStart, end |-> todayEnd, data |-> <<>>]
     ELSE [handler |-> "presence-data", code |-> 200, now |-> now,
           queries |-> <<"user.findMany", "presenceLog.findMany", "presenceLog.findMany">>,
           explicit |-> explicit, start |-> todayStart, end |-> todayEnd,
           data |-> [u \in users |->
                       PresenceDataUser(allPresenceLogs, workdays, u,
                                        todayStart, todayEnd, now, tz)]]

GetPresenceData ==
  /\ resp = NoResp
  /\ \E range \in DayRanges, now \in Nows :
       /\ now >= LastTs
       /\ LET ok == PresenceData(range[1], range[2], now, serverTz)
          IN \E failAt \in 0..3 : Respond(failAt, ok)
  /\ UNCHANGED <<store, serverTz, inactive, cronSecret, accessToken, botToken>>

\* ------------------------------------- user-timelines, active-only variant
\* The counting loop over the sorted timestamps of one day, from position i:
\* it counts the timestamps inside the block and stops at the first one at
\* or after blockEnd.
RECURSIVE CountInBlock(_, _, _, _)
CountInBlock(sortedTimestamps, i, blockStart, blockEnd) ==
  IF i > Len(sortedTimestamps) THEN {}
  ELSE LET timestamp == sortedTimestamps[i].timestamp
       IN IF timestamp >= blockStart /\ timestamp < blockEnd
          THEN {sortedTimestamps[i].id}
                 \cup CountInBlock(sortedTimestamps, i + 1, blockStart, blockEnd)
          ELSE IF timestamp >= blockEnd THEN {}
          ELSE CountInBlock(sortedTimestamps, i + 1, blockStart, blockEnd)

ActiveTimelineBlock(sortedTimestamps, dayStart, b) ==
  LET hour == b \div 4
      quarter == b % 4
      blockStart == dayStart + (hour * 60 + quarter * 15) * 60 * 1000
      blockEnd == blockStart + 15 * 60 * 1000
      counted == CountInBlock(sortedTimestamps, 1, blockStart, blockEnd)
      activeMinutes == Cardinality(counted)
      onlinePercentage == IF activeMinutes > 0 THEN Round(activeMinutes * 100, 15) ELSE 0
      status == IF activeMinutes > 0
                THEN (IF onlinePercentage >= 30 THEN "online" ELSE "offline")
                ELSE "no-data"
  IN [hour |-> hour, quarter |-> quarter, blockIndex |-> hour * 4 + quarter,
      status |-> status, onlinePercentage |-> onlinePercentage,
      activeMinutes |-> activeMinutes, totalMinutes |-> 15,
      totalMinutesWithData |-> activeMinutes,
      blockStart |-> blockStart, blockEnd |-> blockEnd,
      blockLogs |-> counted]

ActiveTimelineDay(allPresenceLogs, userId, workday, tz) ==
  LET dateKey == DateKey(workday)
      dayTimestamps == ByUserAndDay(allPresenceLogs, userId, dateKey)
      dayStart == workday
  IN [date |-> DateKey(workday),
      dayShort |-> LocalWeekday(tz, workday),
      dayStart |-> dayStart,
      timeline |-> [i \in 1..96 |-> ActiveTimelineBlock(dayTimestamps, dayStart, i - 1)]]

\* Array.prototype.reverse()
Reverse(seq) == [i \in 1..Len(seq) |-> seq[Len(seq) + 1 - i]]

\* GET /api/dashboard/user-timelines?userIds=&start=  (active logs only)
UserTimelinesActive(userIds, startParam, now, tz) ==
  IF Len(userIds) = 0
  THEN [handler |-> "user-timelines-active", code |-> 400, queries |-> <<>>]
  ELSE
    LET baseDate == IF startParam # NoParam THEN startParam ELSE now
        workdays == [i \in 1..7 |-> baseDate - (i - 1) * 24 * 60 * 60 * 1000]
        rangeStart == workdays[7]
        rangeEnd == workdays[1] + 24 * 60 * 60 * 1000 - 1
        idSet == {userIds[i] : i \in DOMAIN userIds}
        allPresenceLogs ==
          Take(ByUserThenTime(Active(FindLogs(idSet, rangeStart, rangeEnd))), ActiveLimit)
    IN [handler |-> "user-timelines-active", code |-> 200, now |-> now,
        queries |-> <<"presenceLog.findMany">>,
        explicit |-> startParam # NoParam, start |-> baseDate,
        data |-> [k \in 1..Len(userIds) |->
                    [userId |-> userIds[k],
                     workdays |-> Reverse([i \in 1..7 |->
                        ActiveTimelineDay(allPresenceLogs, userIds[k], workdays[i], tz)])]]]

\* The userIds query parameter.
UserIdLists == {<<>>, <<"u1">>}
UserIdListsLocal == {<<>>, <<"u2", "u1">>}
StartParams == Starts \cup {NoParam}

GetUserTimelinesActive ==
  /\ resp = NoResp
  /\ \E userIds \in UserIdLists, start \in StartParams, now \in Nows :
       /\ now >= LastTs
       /\ LET ok == UserTimelinesActive(userIds, start, now, serverTz)
          IN \E failAt \in 0..1 : Respond(failAt, ok)
  /\ UNCHANGED <<store, serverTz, inactive, cronSecret, accessToken, botToken>>

\* ---------------------------------- user-timelines, inclusive-end variant
InclusiveTimelineBlock(presenceLogs, dayStart, b) ==
  LET hour == b \div 4
      quarter == b % 4
      blockStart == dayStart + (hour * 60 + quarter * 15) * 60 * 1000
      blockEnd == blockStart + 15 * 60 * 1000
      blockLogs == SelectSeq(presenceLogs,
                     LAMBDA r : r.timestamp >= blockStart /\ r.timestamp <= blockEnd)
      activeMinutes == Len(Active(blockLogs))
      totalMinutesInBlock == 15
      totalMinutesWithData == Len(blockLogs)
      \* presencePercentage >= 50, with presencePercentage = active / total * 100
      status == IF totalMinutesWithData > 0
                THEN (IF activeMinutes * 100 >= 50 * totalMinutesWithData
                      THEN "online" ELSE "offline")
                ELSE "no-data"
      onlinePercentage == IF totalMinutesWithData > 0
                          THEN Round(activeMinutes * 100, totalMinutesWithData)
                          ELSE 0
  IN [hour |-> hour, quarter |-> quarter, blockIndex |-> hour * 4 + quarter,
      status |-> status, onlinePercentage |-> onlinePercentage,
      activeMinutes |-> activeMinutes, totalMinutes |-> totalMinutesInBlock,
      totalMinutesWithData |-> totalMinutesWithData,
      blockStart |-> blockStart, blockEnd |-> blockEnd,
      blockLogs |-> Ids(blockLogs)]

InclusiveTimelineDay(userPresenceLogs, workday, tz) ==
  LET dayStart == workday
      dayEnd == workday + 24 * 60 * 60 * 1000 - 1
      presenceLogs == SelectSeq(userPresenceLogs,
                        LAMBDA r : r.timestamp >= dayStart /\ r.timestamp <= dayEnd)
  IN [date |-> DateKey(workday),
      dayShort |-> LocalWeekday(tz, workday),
      dayStart |-> dayStart,
      timeline |-> [i \in 1..96 |-> InclusiveTimelineBlock(presenceLogs, dayStart, i - 1)]]

\* GET /api/dashboard/user-timelines?userIds=&start=  (all logs, <= blockEnd)
UserTimelinesInclusive(userIds, startParam, now, tz) ==
  IF Len(userIds) = 0
  THEN [handler |-> "user-timelines-inclusive", code |-> 400, queries |-> <<>>]
  ELSE
    LET baseDate == IF startParam # NoParam THEN startParam ELSE now
        workdays == [i \in 1..7 |-> baseDate - (i - 1) * 24 * 60 * 60 * 1000]
        rangeStart == workdays[7]
        rangeEnd == workdays[1] + 24 * 60 * 60 * 1000 - 1
        idSet == {userIds[i] : i \in DOMAIN userIds}
        allPresenceLogs == FindLogs(idSet, rangeStart, rangeEnd)
    IN [handler |-> "user-timelines-inclusive", code |-> 200, now |-> now,
        queries |-> <<"presenceLog.findMany">>,
        explicit |-> startParam # NoParam, start |-> baseDate,
        data |-> [k \in 1..Len(userIds) |->
                    [userId |-> userIds[k],
                     workdays |-> Reverse([i \in 1..7 |->
                        InclusiveTimelineDay(OfUser(allPresenceLogs, userIds[k]),
                                             workdays[i], tz)])]]]

GetUserTimelinesInclusive ==
  /\ resp = NoResp
  /\ \E userIds \in UserIdLists, start \in StartParams, now \in Nows :
       /\ now >= LastTs
       /\ LET ok == UserTimelinesInclusive(userIds, start, now, serverTz)
          IN \E failAt \in 0..1 : Respond(failAt, ok)
  /\ UNCHANGED <<store, serverTz, inactive, cronSecret, accessToken, botToken>>

\* ------------------------------- user-timelines, server-local-day variant
\* Mutation of LocalTimelineBlock: a block is online only above 50 %, so a
\* block split evenly between active and away turns offline.
LocalTimelineBlockStrict(presenceLogs, dayStart, b, tz) ==
  LET hour == b \div 4
      quarter == b % 4
      blockStart == SetHours(tz, dayStart, hour, quarter * 15, 0, 0)
      blockEnd == SetHours(tz, dayStart, hour, quarter * 15 + 14, 59, 999)
      blockLogs == SelectSeq(presenceLogs,
                     LAMBDA r : r.timestamp >= blockStart /\ r.timestamp <= blockEnd)
      activeMinutes == Len(Active(blockLogs))
      totalMinutesWithData == Len(blockLogs)
  IN [hour |-> hour, quarter |-> quarter, blockIndex |-> hour * 4 + quarter,
      status |-> IF totalMinutesWithData > 0
                 THEN (IF activeMinutes * 100 > 50 * totalMinutesWithData
                       THEN "online" ELSE "offline")
                 ELSE "no-data",
      onlinePercentage |-> IF totalMinutesWithData > 0
                           THEN Round(activeMinutes * 100, totalMinutesWithData)
                           ELSE 0,
      activeMinutes |-> activeMinutes, totalMinutes |-> 15,
      totalMinutesWithData |-> totalMinutesWithData,
      blockStart |-> blockStart, blockEnd |-> blockEnd,
      blockLogs |-> Ids(blockLogs)]

LocalTimelineBlock(presenceLogs, dayStart, b, tz) ==
  LET hour == b \div 4
      quarter == b % 4
      blockStart == SetHours(tz, dayStart, hour, quarter * 15, 0, 0)
      blockEnd == SetHours(tz, dayStart, hour, quarter * 15 + 14, 59, 999)
      blockLogs == SelectSeq(presenceLogs,
                     LAMBDA r : r.timestamp >= blockStart /\ r.timestamp <= blockEnd)
      activeMinutes == Len(Active(blockLogs))
      totalMinutesInBlock == 15
      totalMinutesWithData == Len(blockLogs)
      \* presencePercentage >= 50, with presencePercentage = active / total * 100
      status == IF totalMinutesWithData > 0
                THEN (IF activeMinutes * 100 >= 50 * totalMinutesWithData
                      THEN "online" ELSE "offline")
                ELSE "no-data"
      onlinePercentage == IF totalMinutesWithData > 0
                          THEN Round(activeMinutes * 100, totalMinutesWithData)
                          ELSE 0
  IN [hour |-> hour, quarter |-> quarter, blockIndex |-> hour * 4 + quarter,
      status |-> status, onlinePercentage |-> onlinePercentage,
      activeMinutes |-> activeMinutes, totalMinutes |-> totalMinutesInBlock,
      totalMinutesWithData |-> totalMinutesWithData,
      blockStart |-> blockStart, blockEnd |-> blockEnd,
      blockLogs |-> Ids(blockLogs)]

LocalTimelineDay(userPresenceLogs, workday, tz) ==
  LET dayStart == StartOfDay(tz, workday)
      dayEnd == EndOfDay(tz, workday)
      presenceLogs == SelectSeq(userPresenceLogs,
                        LAMBDA r : r.timestamp >= dayStart /\ r.timestamp <= dayEnd)
  IN [date |-> DateKey(workday),
      dayShort |-> LocalWeekday(tz, workday),
      dayStart |-> dayStart,
      timeline |-> [i \in 1..96 |-> LocalTimelineBlock(presenceLogs, dayStart, i - 1, tz)]]

\* GET /api/dashboard/user-timelines?userIds=  (the last 7 server-local days)
UserTimelines(userIds, now, tz) ==
  IF Len(userIds) = 0
  THEN [handler |-> "user-timelines", code |-> 400, queries |-> <<>>]
  ELSE
    LET today == now
        userTimezoneToday == StartOfDay(tz, today)
        workdays == [i \in 1..7 |-> AddLocalDays(tz, userTimezoneToday, 0 - (i - 1))]
        rangeStart == StartOfDay(tz, workdays[7])
        rangeEnd == EndOfDay(tz, workdays[1])
        idSet == {userIds[i] : i \in DOMAIN userIds}
        allPresenceLogs == FindLogs(idSet, rangeStart, rangeEnd)
    IN [handler |-> "user-timelines", code |-> 200, now |-> now,
        queries |-> <<"presenceLog.findMany">>,
        explicit |-> FALSE, start |-> userTimezoneToday,
        data |-> [k \in 1..Len(userIds) |->
                    [userId |-> userIds[k],
                     workdays |-> Reverse([i \in 1..7 |->
                        LocalTimelineDay(OfUser(allPresenceLogs, userIds[k]),
                                         workdays[i], tz)])]]]

GetUserTimelines ==
  /\ resp = NoResp
  /\ \E userIds \in UserIdListsLocal, now \in Nows :
       /\ now >= LastTs
       /\ LET ok == UserTimelines(userIds, now, serverTz)
          IN \E failAt \in 0..1 : Respond(failAt, ok)
  /\ UNCHANGED <<store, serverTz, inactive, cronSecret, accessToken, botToken>>

\* ------------------------------------------ user-timeline (single user)
\* One block of the single-user timeline: closed at its last millisecond,
\* online on any active sample, the percentage taken of the samples.
UserTimelineBlock(presenceLogs, dayStart, b, tz) ==
  LET hour == b \div 4
      quarter == b % 4
      blockStart == SetHours(tz, dayStart, hour, quarter * 15, 0, 0)
      blockEnd == SetHours(tz, dayStart, hour, quarter * 15 + 14, 59, 999)
      blockLogs == SelectSeq(presenceLogs,
                     LAMBDA r : r.timestamp >= blockStart /\ r.timestamp <= blockEnd)
      activeMinutes == Len(Active(blockLogs))
      totalMinutesInBlock == 15
      totalMinutesWithData == Len(blockLogs)
      status == IF Len(blockLogs) = 0 THEN "no-data"
                ELSE IF activeMinutes > 0 THEN "online"
                ELSE "offline"
      onlinePercentage == IF activeMinutes > 0
                          THEN Round(activeMinutes * 100, totalMinutesWithData)
                          ELSE 0
  IN [hour |-> hour, quarter |-> quarter, blockIndex |-> hour * 4 + quarter,
      status |-> status, onlinePercentage |-> onlinePercentage,
      activeMinutes |-> activeMinutes, totalMinutes |-> totalMinutesInBlock,
      totalMinutesWithData |-> totalMinutesWithData,
      blockStart |-> blockStart, blockEnd |-> blockEnd,
      blockLogs |-> Ids(blockLogs)]

\* One round of the loop over workdays: the day's own range query, then its
\* 96 blocks.
UserTimelineDay(userId, workday, tz) ==
  LET dayStart == StartOfDay(tz, workday)
      dayEnd == EndOfDay(tz, workday)
      presenceLogs == FindLogs({userId}, dayStart, dayEnd)
  IN [date |-> DateKey(workday),
      dayName |-> LocalWeekday(tz, workday),
      dayStart |-> dayStart,
      timeline |-> [i \in 1..96 |-> UserTimelineBlock(presenceLogs, dayStart, i - 1, tz)]]

\* GET /api/dashboard/user-timeline?userId=  (the last 7 server-local days
\* of one user); userId is <<>> when the parameter is absent.
UserTimeline(userId, now, tz) ==
  IF Len(userId) = 0
  THEN [handler |-> "user-timeline", code |-> 400, queries |-> <<>>]
  ELSE
    LET today == now
        userTimezoneToday == StartOfDay(tz, today)
        workdays == Reverse([i \in 1..7 |-> AddLocalDays(tz, userTimezoneToday, 0 - (i - 1))])
    IN [handler |-> "user-timeline", code |-> 200, now |-> now,
        queries |-> [i \in 1..7 |-> "presenceLog.findMany"],
        explicit |-> FALSE, start |-> userTimezoneToday,
        data |-> [userId |-> userId[1],
                  workdays |-> [i \in 1..7 |-> UserTimelineDay(userId[1], workdays[i], tz)]]]

GetUserTimeline ==
  /\ resp = NoResp
  /\ \E userId \in {<<>>, <<"u1">>, <<"u2">>}, now \in Nows :
       /\ now >= LastTs
       /\ LET ok == UserTimeline(userId, now, serverTz)
          IN \E failAt \in 0..7 : Respond(failAt, ok)
  /\ UNCHANGED <<store, serverTz, inactive, cronSecret, accessToken, botToken>>

\* ----------------------------------------------------------- user activity
\* Mutation of UserActivityBlock: the block ends at its last millisecond
\* instead of at the start of the next block.
UserActivityBlockClosed(dayLogs, dayStartForClient, b) ==
  LET hour == b \div 4
      quarter == b % 4
      blockStart == dayStartForClient + (hour * 60 + quarter * 15) * 60 * 1000
      blockEnd == blockStart + 15 * 60 * 1000 - 1
      blockLogs == SelectSeq(dayLogs,
                     LAMBDA r : r.timestamp >= blockStart /\ r.timestamp <= blockEnd)
      activeMinutes == Len(Active(blockLogs))
  IN [hour |-> hour, quarter |-> quarter, blockIndex |-> hour * 4 + quarter,
      status |-> IF Len(blockLogs) = 0 THEN "no-data"
                 ELSE IF activeMinutes >= 6 THEN "online" ELSE "offline",
      onlinePercentage |-> IF Len(blockLogs) > 0
                           THEN Round(activeMinutes * 100, Len(blockLogs)) ELSE 0,
      activeMinutes |-> activeMinutes, totalMinutes |-> 15,
      blockStart |-> blockStart, blockEnd |-> blockEnd,
      blockLogs |-> Ids(blockLogs)]

UserActivityBlock(dayLogs, dayStartForClient, b) ==
  LET hour == b \div 4
      quarter == b % 4
      blockStart == dayStartForClient + (hour * 60 + quarter * 15) * 60 * 1000
      blockEnd == blockStart + 15 * 60 * 1000
      blockLogs == SelectSeq(dayLogs,
                     LAMBDA r : r.timestamp >= blockStart /\ r.timestamp < blockEnd)
      activeMinutes == Len(Active(blockLogs))
      onlinePercentage == IF Len(blockLogs) > 0
                          THEN Round(activeMinutes * 100, Len(blockLogs))
                          ELSE 0
      status == IF Len(blockLogs) = 0 THEN "no-data"
                ELSE IF activeMinutes >= 6 THEN "online"
                ELSE "offline"
  IN [hour |-> hour, quarter |-> quarter, blockIndex |-> hour * 4 + quarter,
      status |-> status, onlinePercentage |-> onlinePercentage,
      activeMinutes |-> activeMinutes, totalMinutes |-> 15,
      blockStart |-> blockStart, blockEnd |-> blockEnd,
      blockLogs |-> Ids(blockLogs)]

\* The weekday shown for a date key; tzParam is <<>> or <<offset in minutes>>.
UserActivityDayName(dateKey, tzParam, tz) ==
  LET dateForDayName == LocalToUtc(tz, dateKey * DayMs)
  IN IF Len(tzParam) > 0
     THEN LET clientTimezoneOffset == tzParam[1]
              \* getTimezoneOffset() is UTC minus local time, in minutes
              utcTime == dateForDayName - Offset(tz, dateForDayName)
              clientTime == utcTime - clientTimezoneOffset * 60000
          IN LocalWeekday(tz, clientTime)
     ELSE LocalWeekday(tz, dateForDayName)

UserActivityDay(presenceLogs, currentDate, tzParam, tz) ==
  LET dateKey == DateKey(currentDate)
      dayLogs == SelectSeq(presenceLogs, LAMBDA r : DateKey(r.timestamp) = dateKey)
      dayStartForClient == DateKeyStart(dateKey)
      timeline == [i \in 1..96 |-> UserActivityBlock(dayLogs, dayStartForClient, i - 1)]
  IN [date |-> dateKey,
      dayName |-> UserActivityDayName(dateKey, tzParam, tz),
      dayStart |-> dayStartForClient,
      totalActiveMinutes |-> SumActive(timeline),
      timeline |-> timeline]

\* The while loop over currentDate, one day per round.
RECURSIVE UserActivityDays(_, _, _, _, _)
UserActivityDays(presenceLogs, currentDate, iterationEndDate, tzParam, tz) ==
  IF currentDate <= iterationEndDate
  THEN <<UserActivityDay(presenceLogs, currentDate, tzParam, tz)>>
         \o UserActivityDays(presenceLogs, AddLocalDays(tz, currentDate, 1),
                             iterationEndDate, tzParam, tz)
  ELSE <<>>

SumDays(days) ==
  LET RECURSIVE Sum(_)
      Sum(i) == IF i = 0 THEN 0 ELSE days[i].totalActiveMinutes + Sum(i - 1)
  IN Sum(Len(days))

\* Mutation of UserActivity: the result of the user lookup is not tested, so
\* the range query and the day loop run for a user that does not exist.
UserActivityAnyUser(userId, startParam, endParam, tzParam, now, tz) ==
    LET explicit == startParam # NoParam /\ endParam # NoParam
        endDate == IF explicit THEN endParam ELSE now
        startDate == IF explicit THEN startParam ELSE AddLocalDays(tz, now, 0 - 14)
        presenceLogs == FindLogs({userId}, startDate, endDate)
        startDateKey == DateKey(startDate)
        endDateKey == DateKey(endDate)
        currentDate == DateKeyStart(startDateKey)
        iterationEndDate == DateKeyStart(endDateKey) + DayMs - 1
        days == UserActivityDays(presenceLogs, currentDate, iterationEndDate, tzParam, tz)
    IN [handler |-> "user-activity", code |-> 200, now |-> now,
        queries |-> <<"user.findUnique", "presenceLog.findMany">>,
        userId |-> userId, explicit |-> explicit,
        start |-> startDate, end |-> endDate, tzParam |-> tzParam,
        data |-> [days |-> Reverse(days),
                  totalWeeks |-> (Len(days) + 6) \div 7,
                  totalActiveMinutes |-> SumDays(days)]]

\* GET /api/user/{userId}/activity?start=&end=&tz=
\* `queries` lists the store reads issued before the response.
UserActivity(userId, startParam, endParam, tzParam, now, tz) ==
  IF userId \notin Users
  THEN [handler |-> "user-activity", code |-> 404, now |-> now, userId |-> userId,
        queries |-> <<"user.findUnique">>, error |-> "User not found"]
  ELSE
    LET explicit == startParam # NoParam /\ endParam # NoParam
        endDate == IF explicit THEN endParam ELSE now
        startDate == IF explicit THEN startParam ELSE AddLocalDays(tz, now, 0 - 14)
        presenceLogs == FindLogs({userId}, startDate, endDate)
        startDateKey == DateKey(startDate)
        endDateKey == DateKey(endDate)
        currentDate == DateKeyStart(startDateKey)
        iterationEndDate == DateKeyStart(endDateKey) + DayMs - 1
        days == UserActivityDays(presenceLogs, currentDate, iterationEndDate, tzParam, tz)
    IN [handler |-> "user-activity", code |-> 200, now |-> now,
        queries |-> <<"user.findUnique", "presenceLog.findMany">>,
        userId |-> userId, explicit |-> explicit,
        start |-> startDate, end |-> endDate, tzParam |-> tzParam,
        data |-> [days |-> Reverse(days),
                  totalWeeks |-> (Len(days) + 6) \div 7,
                  totalActiveMinutes |-> SumDays(days)]]

\* The (start, end) pairs of user-activity requests: a client's local day, a
\* UTC day, two client days, an end before the start, and no parameters.
ActivityRanges ==
  {<<ClientMidnight, ClientMidnight + DayMs - 1>>,
   <<BaseDay, BaseDay + DayMs - 1>>,
   <<ClientMidnight - DayMs, ClientMidnight + DayMs - 1>>,
   <<BaseDay + DayMs, BaseDay>>,
   <<NoParam, NoParam>>}
\* The tz query parameter: absent, or the client's getTimezoneOffset().
TzParams == {<<>>, <<300>>}
\* The requests: the client's local day with and without tz, the others without.
ActivityRequests ==
  {<<r[1], r[2], <<>>>> : r \in ActivityRanges}
    \cup {<<ClientMidnight, ClientMidnight + DayMs - 1, z>> : z \in TzParams}

GetUserActivity ==
  /\ resp = NoResp
  /\ \E userId \in {"u1", UnknownUser}, req \in ActivityRequests, now \in Nows :
       /\ now >= LastTs
       /\ LET ok == UserActivity(userId, req[1], req[2], req[3], now, serverTz)
          IN \E failAt \in 0..2 : Respond(failAt, ok)
  /\ UNCHANGED <<store, serverTz, inactive, cronSecret, accessToken, botToken>>

\* the response leaves the server
Return ==
  /\ resp # NoResp
  /\ resp' = NoResp
  /\ fault' = 0
  /\ UNCHANGED <<store, serverTz, inactive, cronSecret, accessToken, botToken>>

Next == Collect \/ GetTodayOverview \/ GetPresenceData
  \/ GetUserTimelinesActive \/ GetUserTimelinesInclusive
  \/ GetUserTimelines \/ GetUserActivity \/ Return
Spec == Init /\ [][Next]_vars

\* The state after construction on a server in UTC.
InitUTC == Init /\ serverTz = "UTC"

\* The same program with the user sync running too, on a server in UTC.
NextSync == Collect \/ GetTodayOverview \/ GetPresenceData
  \/ GetUserTimelinesActive \/ GetUserTimelinesInclusive
  \/ GetUserTimelines \/ GetUserActivity \/ Return
  \/ SyncAllUsers
SpecSync == InitUTC /\ [][NextSync]_vars

\* The multi-day timeline routes, the single-user one among them, on a
\* server in UTC.
NextTimelines == Collect \/ GetPresenceData \/ GetUserTimelinesActive
  \/ GetUserTimelines \/ GetUserTimeline \/ Return
SpecTimelines == InitUTC /\ [][NextTimelines]_vars

\* The cron routes, the routes that trigger them and sign-in, with
\* today-overview reading what they leave, on a server in UTC; nobody has
\* signed in yet and the deployment's secret is missing, short or valid.
InitCron ==
  /\ store = <<>>
  /\ serverTz = "UTC"
  /\ resp = NoResp
  /\ fault = 0
  /\ inactive = {}
  /\ cronSecret \in Secrets
  /\ accessToken = {}
  /\ botToken = {}
NextCron == SignIn \/ SyncAllUsers \/ CollectPresence \/ ManualTrigger
  \/ StartupInit \/ DataStatusInit \/ GetTodayOverview \/ Return
SpecCron == InitCron /\ [][NextCron]_vars

\* The dashboard's two day views over a table filled by overlapping
\* collection runs, on a server in UTC.
NextBurst == CollectOverlapping \/ GetTodayOverview \/ GetPresenceData \/ Return
SpecBurst == InitUTC /\ [][NextBurst]_vars

\* The same program over a table that can also hold an "offline" row, on a
\* server in UTC.
NextOffline == Collect \/ GetTodayOverview \/ GetPresenceData
  \/ GetUserTimelinesActive \/ GetUserTimelinesInclusive
  \/ GetUserTimelines \/ GetUserActivity \/ Return
  \/ InsertOffline
SpecOffline == InitUTC /\ [][NextOffline]_vars

\* ------------------------------------------------- reading a response
Served(h) == resp.handler = h /\ resp.code = 200

SevenDayHandlers == {"user-timelines-active", "user-timelines-inclusive", "user-timelines"}

\* Every day of the response: whose it is, where its grid starts, its blocks.
DayViews ==
  IF resp.handler = "none" THEN {}
  ELSE IF resp.code # 200 THEN {}
  ELSE IF resp.handler = "today-overview"
  THEN {[handler |-> resp.handler, user |-> u, dayStart |-> resp.start,
         timeline |-> resp.data[u].timeline] : u \in DOMAIN resp.data}
  ELSE IF resp.handler = "presence-data"
  THEN {[handler |-> resp.handler, user |-> u, dayStart |-> resp.start,
         timeline |-> resp.data[u].timeline] : u \in DOMAIN resp.data}
       \cup {[handler |-> "presence-data-workdays", user |-> u,
              dayStart |-> resp.data[u].workdays[i].dayStart,
              timeline |-> resp.data[u].workdays[i].timeline] :
                u \in DOMAIN resp.data, i \in 1..7}
  ELSE IF resp.handler \in SevenDayHandlers
  THEN {[handler |-> resp.handler, user |-> resp.data[k].userId,
         dayStart |-> resp.data[k].workdays[i].dayStart,
         timeline |-> resp.data[k].workdays[i].timeline] :
           k \in DOMAIN resp.data, i \in 1..7}
  ELSE {[handler |-> resp.handler, user |-> resp.userId,
         dayStart |-> resp.data.days[i].dayStart,
         timeline |-> resp.data.days[i].timeline] : i \in DOMAIN resp.data.days}

\* The stored snapshots of user u observed in [from, to).
Observed(u, from, to) ==
  {i \in DOMAIN store :
     store[i].userId = u /\ store[i].timestamp >= from /\ store[i].timestamp < to}

ActiveIds(ids) == {i \in ids : store[i].status = "active"}

\* The snapshots counted in the blocks of a timeline.
Counted(timeline) == UNION {timeline[b].blockLogs : b \in DOMAIN timeline}

\* ------------------------------------------------------------------ C1
\* C1: user activity with explicit start <= end: every stored snapshot of
\* the user with start <= timestamp <= end is counted in exactly one block
\* of exactly one returned day.
C1_EachSnapshotInExactlyOneBlock ==
  (Served("user-activity") /\ resp.explicit /\ resp.start <= resp.end) =>
    \A id \in DOMAIN store :
      (store[id].userId = resp.userId /\ store[id].timestamp >= resp.start
         /\ store[id].timestamp <= resp.end) =>
        Cardinality({db \in (DOMAIN resp.data.days) \X (1..96) :
                       id \in resp.data.days[db[1]].timeline[db[2]].blockLogs}) = 1

\* ------------------------------------------------------------------ C2
\* C2: presence-data workdays and active-only user-timelines with an explicit
\* start S: for each of the 7 days, the snapshots counted in its 96 blocks
\* are exactly the user's stored snapshots in [dayStart, dayStart + 24h)
\* (the active ones only in the active-only variant).
C2_WorkdayCountsItsWindow ==
  \A d \in DayViews :
    (resp.explicit /\ d.handler \in {"presence-data-workdays", "user-timelines-active"}) =>
      Counted(d.timeline) =
        (IF d.handler = "user-timelines-active"
         THEN ActiveIds(Observed(d.user, d.dayStart, d.dayStart + DayMs))
         ELSE Observed(d.user, d.dayStart, d.dayStart + DayMs))

\* ------------------------------------------------------------------ C3
\* C3: in every timeline handler a snapshot exactly on a block boundary is
\* counted in the block that starts there and never in the one that ends
\* there, so no snapshot is counted in two blocks of the same day.
C3_BoundarySnapshotInOneBlock ==
  \A d \in DayViews :
    \A b \in DOMAIN d.timeline :
      /\ \A id \in d.timeline[b].blockLogs :
           store[id].timestamp # d.timeline[b].blockStart + BlockMs
      /\ \A c \in DOMAIN d.timeline :
           c # b => d.timeline[b].blockLogs \cap d.timeline[c].blockLogs = {}

\* ------------------------------------------------------------------ C4
\* 96 blocks, blockIndex = hour * 4 + quarter running 0..95 in order, the
\* first block starting at dayStart.
GridIndexed(d) ==
  /\ Len(d.timeline) = 96
  /\ \A i \in 1..96 :
       /\ d.timeline[i].blockIndex = i - 1
       /\ d.timeline[i].blockIndex = d.timeline[i].hour * 4 + d.timeline[i].quarter
  /\ d.timeline[1].blockStart = d.dayStart

\* Each block ends where the next starts, the last one at dayStart + 24h.
GridContiguous(d) ==
  /\ \A i \in 1..95 : d.timeline[i].blockEnd = d.timeline[i + 1].blockStart
  /\ d.timeline[96].blockEnd = d.dayStart + DayMs

C5_NoDataIffNothingObserved ==
  \A d \in DayViews :
    \A b \in DOMAIN d.timeline :
      LET blk == d.timeline[b]
          obs == Observed(d.user, blk.blockStart, blk.blockStart + BlockMs)
      IN /\ (blk.status = "no-data") <=> (obs = {})
         /\ (obs # {} /\ ActiveIds(obs) = {}) =>
              (blk.status = "offline" /\ blk.activeMinutes = 0)

\* ------------------------------------------------------------------ C6
\* The snapshots of d's user inside block blk, bounds included.
InBlock(d, blk) == Observed(d.user, blk.blockStart, blk.blockEnd + 1)

BlockFacts(days) ==
  {[blockStart |-> days[i].timeline[b].blockStart,
    status |-> days[i].timeline[b].status,
    onlinePercentage |-> days[i].timeline[b].onlinePercentage] :
      i \in DOMAIN days, b \in 1..96}

\* C7: for the same store and the same block (same blockStart),
\* today-overview, user-timelines and user activity report the same status
\* and the same onlinePercentage.
C7_HandlersAgreeOnBlock ==
  (Served("today-overview") /\ resp.explicit) =>
    \A u \in DOMAIN resp.data :
      LET activity == UserActivity(u, resp.start, resp.end, <<>>, resp.now, serverTz)
          timelines == UserTimelines(<<u>>, resp.now, serverTz)
          others == BlockFacts(activity.data.days)
                      \cup BlockFacts(timelines.data[1].workdays)
      IN \A b \in 1..96 :
           \A o \in others :
             o.blockStart = resp.data[u].timeline[b].blockStart =>
               /\ o.status = resp.data[u].timeline[b].status
               /\ o.onlinePercentage = resp.data[u].timeline[b].onlinePercentage

\* ------------------------------------------------------------------ C8
PercentOfSamples(blk) ==
  IF Cardinality(blk.blockLogs) > 0
  THEN Round(blk.activeMinutes * 100, Cardinality(blk.blockLogs))
  ELSE 0

SampleHandlers == {"user-timelines", "user-timelines-inclusive", "user-activity"}

C9_WorkdaysMostRecentFirst ==
  (resp.handler \in {"user-timelines-active", "user-timelines-inclusive"}
     /\ resp.code = 200 /\ resp.explicit) =>
    \A k \in DOMAIN resp.data :
      /\ Len(resp.data[k].workdays) = 7
      /\ \A i \in 1..7 : resp.data[k].workdays[i].date = DateKey(resp.start) - (i - 1)

\* ----------------------------------------------------------------- C10
\* C10: user activity with start <= end: days holds one entry for every UTC
\* date from start's to end's, without gap or duplicate, most recent first.
C10_OneDayPerDate ==
  (Served("user-activity") /\ resp.explicit /\ resp.start <= resp.end) =>
    /\ Len(resp.data.days) = DateKey(resp.end) - DateKey(resp.start) + 1
    /\ \A i \in DOMAIN resp.data.days :
         resp.data.days[i].date = DateKey(resp.end) - (i - 1)

\* ----------------------------------------------------------------- C11
\* The stored snapshots of user u that are active and lie in the trailing
\* 15 minutes of evaluation time t.
RecentlyActive(u, t) ==
  {id \in DOMAIN store :
     /\ store[id].userId = u
     /\ store[id].status = "active"
     /\ store[id].timestamp >= t - BlockMs
     /\ store[id].timestamp <= t}

\* C11: today-overview and presence-data, evaluated at time t: a user's
\* isCurrentlyOnline is true iff the store holds an active snapshot of that
\* user with timestamp in [t - 15 min, t], whatever the requested day
\* window and whatever away snapshots lie in those 15 minutes.
C11_CurrentlyOnlineIffRecentActive ==
  (Served("today-overview") \/ Served("presence-data")) =>
    \A u \in DOMAIN resp.data :
      resp.data[u].isCurrentlyOnline <=> (RecentlyActive(u, resp.now) # {})

\* ----------------------------------------------------------------- C12
\* C12: user activity for a known user, no store read failing: a request
\* whose explicit end lies before its start is answered with status 400,
\* never with a success response.
C12_InvalidRangeRejected ==
  (resp.handler = "user-activity" /\ fault = 0 /\ resp.code # 404) =>
    ((resp.explicit /\ resp.end < resp.start) => resp.code = 400)

\* ----------------------------------------------------------------- C13
\* C13: user activity for a userId without a user record (the user lookup
\* itself succeeding): the response is a 404, it carries no timeline data,
\* and no snapshot range query was issued.
C13_UnknownUserNotFound ==
  (resp.handler = "user-activity" /\ fault = 0 /\ resp.userId \notin Users) =>
    /\ resp.code = 404
    /\ "data" \notin DOMAIN resp
    /\ \A q \in DOMAIN resp.queries : resp.queries[q] # "presenceLog.findMany"

\* User activity is asked for an unknown user while the store holds rows.
C13_Witness ==
  /\ resp.handler = "user-activity"
  /\ fault = 0
  /\ resp.userId = UnknownUser
  /\ resp.code = 404
  /\ Len(store) > 0

\* ----------------------------------------------------------------- C14
\* C14: in every aggregation handler, when a store read (user or snapshot
\* query) of the request fails, the response is a 5xx error and carries no
\* data: never a success with empty timelines.
C14_FailedReadIsServerError ==
  fault # 0 =>
    /\ resp.code >= 500
    /\ resp.code <= 599
    /\ "data" \notin DOMAIN resp

\* The second snapshot query of presence-data fails over a non-empty store.
C14_Witness ==
  /\ fault = 3
  /\ resp.handler = "presence-data"
  /\ Len(store) > 0

\* ----------------------------------------------------------------- C15
\* C15: the snapshot log is append-only: a step that serves a request of an
\* aggregation handler leaves the rows unchanged, and no step at all - a
\* collector run and a user sync included - changes or removes a row that
\* exists.
C15_AppendOnly ==
  [][/\ Len(store') >= Len(store)
     /\ SubSeq(store', 1, Len(store)) = store
     /\ (resp' # NoResp \/ inactive' # inactive) => store' = store]_vars

\* The collector has run twice, the sync has marked a user inactive, and
\* today-overview is served from that store.
C15_Witness ==
  /\ Len(store) >= 2
  /\ inactive # {}
  /\ Served("today-overview")

\* ----------------------------------------------------------------- C16
\* Time between the two calls of a repeated request.
CallGap == 10 * MinuteMs

\* The userIds parameter of a served user-timelines request.
RequestedIds == [k \in DOMAIN resp.data |-> resp.data[k].userId]

\* The response to the request of resp, made again at time t on the same store.
Replay(t) ==
  CASE resp.handler = "today-overview" ->
         TodayOverview(resp.start, resp.end, t, serverTz)
    [] resp.handler = "presence-data" ->
         PresenceData(resp.start, resp.end, t, serverTz)
    [] resp.handler = "user-timelines-active" ->
         UserTimelinesActive(RequestedIds, resp.start, t, serverTz)
    [] resp.handler = "user-timelines-inclusive" ->
         UserTimelinesInclusive(RequestedIds, resp.start, t, serverTz)
    [] resp.handler = "user-timelines" ->
         UserTimelines(RequestedIds, t, serverTz)
    [] resp.handler = "user-activity" ->
         UserActivity(resp.userId, resp.start, resp.end, resp.tzParam, t, serverTz)

\* C16 as claimed: a handler called with explicit parameters, and called
\* again later with the same parameters on the unchanged store, returns the
\* same body both times.
C16_SameRequestSameBody ==
  (resp.handler # "none" /\ resp.code = 200 /\ resp.explicit) =>
    Replay(resp.now + CallGap).data = resp.data

\* C16 as amended: user activity and the user-timelines variants taking
\* `start` return the same body both times; so does the server-local-day
\* user-timelines when both calls fall on the same server-local day;
\* today-overview and presence-data return the same body except for each
\* user's isCurrentlyOnline, which is evaluated at the time of the call.
C16_SameBodyButCurrentlyOnline ==
  (resp.handler # "none" /\ resp.code = 200) =>
    LET again == Replay(resp.now + CallGap)
    IN IF resp.handler \in {"today-overview", "presence-data"}
       THEN resp.explicit =>
              /\ DOMAIN again.data = DOMAIN resp.data
              /\ \A u \in DOMAIN resp.data :
                   [again.data[u] EXCEPT !.isCurrentlyOnline =
                                            resp.data[u].isCurrentlyOnline] = resp.data[u]
       ELSE IF resp.handler = "user-timelines"
       THEN again.start = resp.start => again.data = resp.data
       ELSE resp.explicit => again.data = resp.data

\* today-overview is served for an explicit window with a user currently
\* online who is no longer so at the second call.
C16_Witness ==
  /\ Served("today-overview")
  /\ resp.explicit
  /\ \E u \in DOMAIN resp.data :
       /\ resp.data[u].isCurrentlyOnline
       /\ ~Replay(resp.now + CallGap).data[u].isCurrentlyOnline
       /\ resp.data[u].totalActiveMinutes > 0

\* ----------------------------------------------------------------- C17
\* The (date, dayName) pairs of the days returned by user activity and
\* presence-data.
NamedDays ==
  IF Served("user-activity")
  THEN {<<resp.data.days[i].date, resp.data.days[i].dayName>> :
          i \in DOMAIN resp.data.days}
  ELSE IF Served("presence-data")
  THEN {<<resp.data[u].workdays[i].date, resp.data[u].workdays[i].dayName>> :
          u \in DOMAIN resp.data, i \in 1..7}
  ELSE {}

\* C17: in user activity and presence-data every returned day's dayName is
\* the weekday of the calendar date in that day's `date` field, whatever
\* the tz parameter and the server's timezone.
C17_DayNameIsWeekdayOfDate ==
  \A d \in NamedDays : d[2] = Weekday(d[1])

\* ----------------------------------------------------------------- C18
\* C18: user activity with explicit start and end buckets on the caller's
\* day boundaries: block 0 of the oldest day starts exactly at `start`, and
\* the day k days after it starts at start + k * 24h.  (`days` is returned
\* most recent first.)
C18_DaysStartAtCallersStart ==
  (Served("user-activity") /\ resp.explicit) =>
    LET days == resp.data.days
        n == Len(days)
    IN \A i \in 1..n :
         /\ days[i].timeline[1].blockStart = resp.start + (n - i) * DayMs
         /\ days[i].dayStart = days[i].timeline[1].blockStart

\* ----------------------------------------------------------------- C19
\* The stored snapshots whose status is neither active nor away.
UnknownIds == {i \in DOMAIN store : store[i].status \notin Statuses}

\* C19: in every timeline handler a stored snapshot with an unknown status
\* is left out of block assignment and the computation still completes: no
\* block counts it, and a block that holds no other snapshot is what it is
\* without the row: no-data, with activeMinutes 0 and onlinePercentage 0.
C19_UnknownStatusExcluded ==
  (resp.handler # "none" /\ fault = 0 /\ UnknownIds # {}) =>
    /\ resp.code \in {200, 400, 404}
    /\ \A d \in DayViews : \A b \in DOMAIN d.timeline :
         LET block == d.timeline[b]
         IN /\ block.blockLogs \cap UnknownIds = {}
            /\ block.blockLogs \subseteq UnknownIds =>
                 /\ block.status = "no-data"
                 /\ block.activeMinutes = 0
                 /\ block.onlinePercentage = 0

\* ----------------------------------------------------------------- C20
\* The sum of activeMinutes over the blocks of a timeline, counted level by
\* level: how many blocks have at least 1, at least 2, ... active minutes
\* (a block has at most as many as the store has rows).
BlockSum(timeline) ==
  LET RECURSIVE AtLeast(_)
      AtLeast(k) ==
        IF k > MaxRows THEN 0
        ELSE Cardinality({b \in DOMAIN timeline : timeline[b].activeMinutes >= k})
               + AtLeast(k + 1)
  IN AtLeast(1)

\* The sum of totalActiveMinutes over the days at positions 1..n.
RECURSIVE DaySum(_, _)
DaySum(days, n) ==
  IF n = 0 THEN 0 ELSE days[n].totalActiveMinutes + DaySum(days, n - 1)

\* C20: in user activity each day's totalActiveMinutes is the sum of
\* activeMinutes over its 96 blocks and the top-level totalActiveMinutes is
\* the sum of the days' totals; in today-overview and presence-data a
\* user's totalActiveMinutes is the sum of activeMinutes over the 96 blocks
\* of `timeline`.
C20_TotalsAreSums ==
  /\ Served("user-activity") =>
       LET days == resp.data.days
       IN /\ \A i \in DOMAIN days :
               /\ Len(days[i].timeline) = 96
               /\ days[i].totalActiveMinutes = BlockSum(days[i].timeline)
          /\ resp.data.totalActiveMinutes = DaySum(days, Len(days))
  /\ (Served("today-overview") \/ Served("presence-data")) =>
       \A u \in DOMAIN resp.data :
         /\ Len(resp.data[u].timeline) = 96
         /\ resp.data[u].totalActiveMinutes = BlockSum(resp.data[u].timeline)

\* User activity is served with two days that each have active minutes,
\* one of them with two active minutes in one block.
C20_Witness ==
  /\ Served("user-activity")
  /\ \E i, j \in DOMAIN resp.data.days :
       /\ i # j
       /\ resp.data.days[i].totalActiveMinutes > 0
       /\ resp.data.days[j].totalActiveMinutes > 0
       /\ \E b \in 1..96 : resp.data.days[i].timeline[b].activeMinutes >= 2

\* ----------------------------------------------------------------- C21
\* The routes that return several days of timelines.
MultiDayHandlers ==
  SevenDayHandlers \cup {"presence-data", "user-timeline", "user-activity"}

\* The snapshot range queries of the request being served.
RangeQueries == SelectSeq(resp.queries, LAMBDA q : q = "presenceLog.findMany")

\* C21: a multi-day timeline request issues at most two snapshot range
\* queries, whatever the number of days and users it returns: never one
\* query per day.
C21_RangeQueriesBounded ==
  (resp.handler \in MultiDayHandlers /\ resp.code = 200) =>
    Len(RangeQueries) <= 2

\* ----------------------------------------------------------------- C22
\* CRON_SECRET is missing or shorter than 32 characters.
SecretInvalid == Len(cronSecret) = 0 \/ Len(cronSecret) < MinSecretLength

\* C22: collect-presence answers 500 on a deployment whose CRON_SECRET is
\* missing or shorter than 32 characters, and 401 to a request whose
\* Authorization header is not exactly `Bearer <CRON_SECRET>`; in both
\* cases no Slack call is made and no snapshot row is written.
C22_CollectNeedsCronSecret ==
  resp.handler = "collect-presence" =>
    /\ SecretInvalid => resp.code = 500
    /\ (~SecretInvalid /\ resp.authorization # Bearer(cronSecret)) => resp.code = 401
    /\ (SecretInvalid \/ resp.authorization # Bearer(cronSecret)) =>
         /\ resp.slackCalls = 0
         /\ resp.appended = 0
         /\ resp.prepared = <<>>

\* A request carrying another bearer token is turned away with 401 on a
\* deployment that has a valid secret, a signed-in admin and rows collected.
C22_Witness ==
  /\ resp.handler = "collect-presence"
  /\ resp.code = 401
  /\ resp.authorization = Bearer(WrongSecret)
  /\ accessToken # {}
  /\ Len(store) > 0

\* ----------------------------------------------------------------- C23
\* Slack's answer for user u in the run of resp ("none": u was not asked).
AnswerFor(u) ==
  LET at == {k \in DOMAIN resp.users : resp.users[k] = u}
  IN IF at = {} THEN "none" ELSE resp.answers[CHOOSE k \in at : TRUE]

\* The rows the run of resp prepared for user u.
PreparedFor(u) == {k \in DOMAIN resp.prepared : resp.prepared[k].userId = u}

\* C23: one collect-presence run prepares exactly one row for each
\* non-inactive user whose Slack presence call succeeded with ok = true and
\* none for a user whose call failed; a row's status is active when Slack
\* reported presence 'active' and away for any other value, so every row
\* the collector writes has status active or away.
C23_OneRowPerAnsweredUser ==
  /\ (resp.handler = "collect-presence" /\ resp.code = 200) =>
       \A u \in Users :
         LET succeeded == u \notin inactive
                            /\ AnswerFor(u) \in {"active", "away", "other"}
         IN /\ Cardinality(PreparedFor(u)) = IF succeeded THEN 1 ELSE 0
            /\ \A k \in PreparedFor(u) :
                 resp.prepared[k].status =
                   IF AnswerFor(u) = "active" THEN "active" ELSE "away"
  /\ \A i \in DOMAIN store : store[i].status \in Statuses

\* A run in which Slack reported a presence that is neither active nor
\* away for one user and failed for the other: one row, stored as away.
C23_Witness ==
  /\ resp.handler = "collect-presence"
  /\ resp.code = 200
  /\ AnswerFor("u1") = "other"
  /\ AnswerFor("u2") \in {"not-ok", "http-error"}
  /\ Len(resp.prepared) = 1
  /\ resp.appended = 1
  /\ store[Len(store)].status = "away"

\* ----------------------------------------------------------------- C24
\* The users a collection run asked Slack about.
AskedUsers == {resp.users[k] : k \in DOMAIN resp.users}

\* What the responses show of the inactive flag: a sync run leaves flagged
\* exactly the users absent from Slack's active member list (so the flag of
\* a user found again is cleared); a collection run asks Slack about
\* exactly the users not flagged and prepares nothing for a flagged one;
\* today-overview lists exactly the users not flagged.
FlagObserved ==
  /\ (resp.handler = "sync-all-users" /\ resp.code = 200) =>
       inactive = Users \ resp.activeMembers
  /\ (resp.handler = "collect-presence" /\ resp.code = 200) =>
       /\ AskedUsers = Users \ inactive
       /\ \A k \in DOMAIN resp.prepared : resp.prepared[k].userId \notin inactive
       /\ \A u \in Users \ inactive :
            (AnswerFor(u) \in {"active", "away", "other"} /\ resp.appended > 0) =>
              \E i \in DOMAIN store :
                store[i].userId = u /\ store[i].timestamp = resp.timestamp
  /\ Served("today-overview") => DOMAIN resp.data = Users \ inactive

\* No step removes a stored row, whoever owns it.
RowsKept == SubSeq(store', 1, Len(store)) = store

C25_SuccessfulMeansAppended ==
  (resp.handler = "collect-presence" /\ resp.code = 200) =>
    resp.successful = resp.appended

\* ----------------------------------------------------------------- C26
\* C26: a bot token stored in a user's metadata at sign-in is left in place
\* by every later sync-all-users run, as the access token is, so that
\* collect-presence goes on selecting the bot token.
C26_SyncKeepsBotToken ==
  [][(resp = NoResp /\ resp'.handler = "sync-all-users") =>
       /\ botToken \subseteq botToken'
       /\ accessToken \subseteq accessToken']_vars

\* ----------------------------------------------------------------- C27
\* The routes through which snapshot rows are appended.
CollectingRoutes ==
  {"collect-presence", "manual-trigger", "startup-init", "data-status-init"}

\* C27: no snapshot row is appended in consequence of an HTTP request that
\* did not itself present the cron secret, whichever route it went to.
C27_AppendOnlyWithCronSecret ==
  (resp.handler \in CollectingRoutes /\ resp.appended > 0) => resp.presented

\* ----------------------------------------------------------------- C28
\* C28: presence-data with an explicit start: for every user the first
\* entry of `workdays`, the selected day, has the same 96 block statuses
\* and activeMinutes as the user's top-level `timeline`; both describe the
\* window [start, start + 24h).
C28_SelectedDayIsTimeline ==
  (Served("presence-data") /\ resp.explicit) =>
    \A u \in DOMAIN resp.data :
      LET day == resp.data[u].workdays[1].timeline
          today == resp.data[u].timeline
      IN /\ resp.data[u].workdays[1].dayStart = resp.start
         /\ \A b \in 1..96 :
              /\ day[b].status = today[b].status
              /\ day[b].activeMinutes = today[b].activeMinutes

\* ----------------------------------------------------------------- C29
\* The timestamps of the active snapshots of user u in the requested window.
ActiveInWindow(u) ==
  {store[i].timestamp : i \in {j \in DOMAIN store :
      /\ store[j].userId = u
      /\ store[j].status = "active"
      /\ store[j].timestamp >= resp.start
      /\ store[j].timestamp <= resp.end}}

\* C29: in today-overview and presence-data, isCurrentlyOnline = true
\* implies that lastActiveTime is not null and not older than 15 minutes
\* before the time of evaluation; a lastActiveTime that is not null is the
\* timestamp of the latest active snapshot in the requested window.
C29_OnlineHasRecentLastActive ==
  (Served("today-overview") \/ Served("presence-data")) =>
    \A u \in DOMAIN resp.data :
      LET user == resp.data[u]
      IN /\ user.isCurrentlyOnline =>
              /\ user.lastActiveTime # NoParam
              /\ user.lastActiveTime >= resp.now - 15 * MinuteMs
         /\ user.lastActiveTime # NoParam =>
              /\ user.lastActiveTime \in ActiveInWindow(u)
              /\ \A t \in ActiveInWindow(u) : t <= user.lastActiveTime

\* presence-data serves a user who is currently online and has an earlier
\* active snapshot in the window besides the latest one.
C29_Witness ==
  /\ Served("presence-data")
  /\ \E u \in DOMAIN resp.data :
       /\ resp.data[u].isCurrentlyOnline
       /\ Cardinality(ActiveInWindow(u)) >= 2

\* ----------------------------------------------------------------- C30
\* C30: in every block of every handler's output onlinePercentage is an
\* integer in 0..100 and activeMinutes is at most totalMinutes (15), also
\* when more than 15 snapshots of a user fall into one block because
\* collection runs overlapped.
C30_BlockMetricsInRange ==
  \A d \in DayViews : \A b \in DOMAIN d.timeline :
    /\ d.timeline[b].onlinePercentage \in 0..100
    /\ d.timeline[b].activeMinutes <= 15
====
